---- MODULE Spec2Model ----
(***************************************************************************)
(* Model of the conference-program synchroniser:                           *)
(*   export-to-excel.py   (the Extractor,  JSON -> four sheets)            *)
(*   import-from-excel.py (the Reconciler, four sheets -> JSON)            *)
(*                                                                         *)
(* Text is a sequence of atoms.  An atom is one character (" ", ";", "(",  *)
(* ")", a digit, a letter) or a word ("SESSION", "MIT") standing for a run *)
(* of letters that none of the modelled operations splits.                 *)
(* A Python / pandas value is a record [kind, s, n]:                        *)
(*   None (Python None), NaN (an empty cell as pandas reads it),            *)
(*   Absent (a missing dict key), Str(text), Num(integer).                  *)
(***************************************************************************)
EXTENDS Integers, Sequences, FiniteSets, TLC

(***************************************************************************)
(* Values                                                                  *)
(***************************************************************************)
None == [kind |-> "None", s |-> <<>>, n |-> 0]
NaN == [kind |-> "nan", s |-> <<>>, n |-> 0]
Absent == [kind |-> "absent", s |-> <<>>, n |-> 0]
Str(t) == [kind |-> "str", s |-> t, n |-> 0]
Num(k) == [kind |-> "num", s |-> <<>>, n |-> k]

Digits == {"0", "1", "2", "3", "4", "5", "6", "7", "8", "9"}

DigitVal(a) ==
    CASE a = "0" -> 0 [] a = "1" -> 1 [] a = "2" -> 2 [] a = "3" -> 3
      [] a = "4" -> 4 [] a = "5" -> 5 [] a = "6" -> 6 [] a = "7" -> 7
      [] a = "8" -> 8 [] OTHER -> 9

DigitAtom(d) ==
    CASE d = 0 -> "0" [] d = 1 -> "1" [] d = 2 -> "2" [] d = 3 -> "3"
      [] d = 4 -> "4" [] d = 5 -> "5" [] d = 6 -> "6" [] d = 7 -> "7"
      [] d = 8 -> "8" [] OTHER -> "9"

\* Code point of the one-character atoms that occur in names (Python orders
\* strings by code point); a word atom sorts after every single character.
Ord(a) ==
    CASE a = " " -> 32 [] a = "(" -> 40 [] a = ")" -> 41 [] a = ";" -> 59
      [] a \in Digits -> 48 + DigitVal(a)
      [] a = "A" -> 65 [] a = "B" -> 66 [] a = "C" -> 67 [] a = "D" -> 68
      [] OTHER -> 200

\* Python's str < str
RECURSIVE TextLess(_, _)
TextLess(a, b) ==
    IF b = <<>> THEN FALSE
    ELSE IF a = <<>> THEN TRUE
    ELSE IF Ord(a[1]) # Ord(b[1]) THEN Ord(a[1]) < Ord(b[1])
    ELSE TextLess(Tail(a), Tail(b))

\* int(text) for a text of digits
RECURSIVE IntOf(_)
IntOf(t) ==
    IF t = <<>> THEN 0
    ELSE 10 * IntOf(SubSeq(t, 1, Len(t) - 1)) + DigitVal(t[Len(t)])

\* str(k) for k >= 0
RECURSIVE StrOfInt(_)
StrOfInt(k) ==
    IF k < 10 THEN <<DigitAtom(k)>>
    ELSE Append(StrOfInt(k \div 10), DigitAtom(k % 10))

\* str(value) of a cell that is not blank
ToStr(v) == IF v.kind = "num" THEN StrOfInt(v.n) ELSE v.s

(***************************************************************************)
(* String operations                                                       *)
(***************************************************************************)
IsSpace(a) == a = " "

RECURSIVE LStrip(_)
LStrip(t) ==
    IF t # <<>> /\ IsSpace(t[1]) THEN LStrip(Tail(t)) ELSE t

RECURSIVE RStrip(_)
RStrip(t) ==
    IF t # <<>> /\ IsSpace(t[Len(t)]) THEN RStrip(SubSeq(t, 1, Len(t) - 1)) ELSE t

\* str.strip()
Strip(t) == RStrip(LStrip(t))

\* str.isdigit()
IsDigitText(t) == t # <<>> /\ \A i \in 1..Len(t) : t[i] \in Digits

\* str.zfill(width)
RECURSIVE ZFill(_, _)
ZFill(t, width) == IF Len(t) >= width THEN t ELSE ZFill(<<"0">> \o t, width)

\* str.split(sep) for a one-atom separator
RECURSIVE Split(_, _)
Split(t, sep) ==
    IF \A i \in 1..Len(t) : t[i] # sep THEN <<t>>
    ELSE LET k == CHOOSE i \in 1..Len(t) :
                      t[i] = sep /\ \A j \in 1..(i - 1) : t[j] # sep
         IN  <<SubSeq(t, 1, k - 1)>> \o Split(SubSeq(t, k + 1, Len(t)), sep)

\* sep.join(parts)
RECURSIVE Join(_, _)
Join(parts, sep) ==
    IF parts = <<>> THEN <<>>
    ELSE IF Len(parts) = 1 THEN parts[1]
    ELSE parts[1] \o sep \o Join(Tail(parts), sep)

\* str.startswith(word) for a one-atom word
StartsWith(t, word) == t # <<>> /\ t[1] = word

\* str.replace(word, '') for a one-atom word
RECURSIVE RemoveWord(_, _)
RemoveWord(t, word) ==
    IF t = <<>> THEN <<>>
    ELSE IF t[1] = word THEN RemoveWord(Tail(t), word)
    ELSE <<t[1]>> \o RemoveWord(Tail(t), word)

\* Python truthiness of a value
Truthy(v) ==
    CASE v.kind = "str" -> v.s # <<>>
      [] v.kind = "num" -> v.n # 0
      [] OTHER -> FALSE

(***************************************************************************)
(* import-from-excel.py: cell helpers                                      *)
(***************************************************************************)
is_blank(v) ==
    \/ v.kind \in {"None", "nan"}
    \/ v.kind = "str" /\ Strip(v.s) = <<>>

clean_text(v) == IF is_blank(v) THEN <<>> ELSE Strip(ToStr(v))

format_time_value(v) ==
    IF is_blank(v) THEN <<>>
    ELSE IF v.kind = "num" THEN ZFill(StrOfInt(v.n), 4)
    ELSE LET text == Strip(ToStr(v))
         IN  IF IsDigitText(text) /\ Len(text) <= 4 THEN ZFill(text, 4) ELSE text

\* the tail of the pattern  \s*\(([^)]+)\)\s*$  applied to r
RestMatches(r) ==
    LET r1 == LStrip(r)
        r2 == RStrip(r1)
    IN  /\ Len(r2) >= 3
        /\ r2[1] = "("
        /\ r2[Len(r2)] = ")"
        /\ \A i \in 2..(Len(r2) - 1) : r2[i] # ")"

\* re.match(r'^(.+?)\s*\(([^)]+)\)\s*$', text): the shortest group 1 that matches
parse_name_with_institution(v) ==
    IF is_blank(v) THEN [name |-> <<>>, inst |-> None]
    ELSE LET t == Strip(ToStr(v))
             ks == {k \in 1..Len(t) : RestMatches(SubSeq(t, k + 1, Len(t)))}
         IN  IF ks = {} THEN [name |-> t, inst |-> None]
             ELSE LET k == CHOOSE i \in ks : \A j \in ks : i <= j
                      r == Strip(SubSeq(t, k + 1, Len(t)))
                  IN  [name |-> Strip(SubSeq(t, 1, k)),
                       inst |-> Str(Strip(SubSeq(r, 2, Len(r) - 1)))]

RECURSIVE StripNonEmpty(_)
StripNonEmpty(parts) ==
    IF parts = <<>> THEN <<>>
    ELSE IF Strip(parts[1]) # <<>>
         THEN <<Strip(parts[1])>> \o StripNonEmpty(Tail(parts))
         ELSE StripNonEmpty(Tail(parts))

\* 'Name; Name (Institution); Name' -> list of name strings
parse_names(v) ==
    IF v.kind \in {"None", "nan"} \/ ~Truthy(v) THEN <<>>
    ELSE StripNonEmpty(Split(ToStr(v), ";"))

(***************************************************************************)
(* export-to-excel.py                                                      *)
(***************************************************************************)
\* dict.get(key): a missing key reads as None
Get(v) == IF v.kind = "absent" THEN None ELSE v

\* dict.get(key, ''): a missing key reads as ''
GetOr(v) == IF v.kind = "absent" THEN Str(<<>>) ELSE v

\* f"{value}"
Fmt(v) ==
    CASE v.kind = "None" -> <<"None">>
      [] v.kind = "num" -> StrOfInt(v.n)
      [] OTHER -> v.s

\* a value written by DataFrame.to_excel and read back by pd.read_excel:
\* None and '' leave the cell empty, and an empty cell reads as NaN
Cell(v) ==
    IF v.kind \in {"None", "nan", "absent"} \/ (v.kind = "str" /\ v.s = <<>>)
    THEN NaN ELSE v

\* dict[key] = value
Put(d, key, value) ==
    [k \in DOMAIN d \cup {key} |-> IF k = key THEN value ELSE d[k]]

\* a faulty variant: any institution given replaces the stored one
add_participant_overwrite(parts, person_obj) ==
    LET name == person_obj.name
        inst == Get(person_obj.institution)
    IN  IF name \notin DOMAIN parts \/ Truthy(inst)
        THEN Put(parts, name, inst)
        ELSE parts

add_participant(parts, person_obj) ==
    LET name == person_obj.name
        inst == Get(person_obj.institution)
    IN  IF name \notin DOMAIN parts \/ (Truthy(inst) /\ ~Truthy(parts[name]))
        THEN Put(parts, name, inst)
        ELSE parts

RECURSIVE Concat(_)
Concat(seqs) == IF seqs = <<>> THEN <<>> ELSE seqs[1] \o Concat(Tail(seqs))

IsScreening(event) == event.type = Str(<<"screening">>)

\* the person objects in the order main() feeds them to add_participant
SessionPeople(session) ==
    session.presenters \o Concat([i \in 1..Len(session.papers) |-> session.papers[i].authors])

EventPeople(event) ==
    (IF event.has_presenters THEN event.presenters ELSE <<>>)
    \o (IF IsScreening(event) /\ event.has_films
        THEN Concat([i \in 1..Len(event.films) |-> event.films[i].creatives])
        ELSE <<>>)

Observations(data) ==
    Concat([i \in 1..Len(data.sessions) |-> SessionPeople(data.sessions[i])])
    \o Concat([i \in 1..Len(data.events) |-> EventPeople(data.events[i])])

RECURSIVE AddAll(_, _)
AddAll(parts, people) ==
    IF people = <<>> THEN parts
    ELSE AddAll(add_participant(parts, people[1]), Tail(people))

\* sorted(participants.items()): names in ascending string order
RECURSIVE SortedNames(_)
SortedNames(names) ==
    IF names = {} THEN <<>>
    ELSE LET m == CHOOSE x \in names : \A y \in names : y = x \/ TextLess(x, y)
         IN  <<m>> \o SortedNames(names \ {m})

ParticipantsSheet(parts) ==
    LET names == SortedNames(DOMAIN parts)
    IN  [i \in 1..Len(names) |->
            [Name |-> Cell(Str(names[i])), Institution |-> Cell(parts[names[i]])]]

\* sorted(items, key=lambda x: int(x[0])): stable, ascending int(sid)
RECURSIVE SortedSessions(_)
SortedSessions(items) ==
    IF items = <<>> THEN <<>>
    ELSE LET k == CHOOSE i \in 1..Len(items) :
                      /\ \A j \in 1..Len(items) : IntOf(items[i].sid) <= IntOf(items[j].sid)
                      /\ \A j \in 1..(i - 1) : IntOf(items[j].sid) # IntOf(items[i].sid)
         IN  <<items[k]>> \o SortedSessions(SubSeq(items, 1, k - 1) \o SubSeq(items, k + 1, Len(items)))

\* a faulty variant: the names are joined with ", "
PersonNames_comma(people) == Join([i \in 1..Len(people) |-> people[i].name], <<",", " ">>)

\* lines 91, 103, 124, 154: '; '.join of the names
PersonNames(people) == Join([i \in 1..Len(people) |-> people[i].name], <<";", " ">>)

PaperRow(paper) ==
    [SessionNum |-> Cell(Str(<<>>)),
     Type |-> Cell(Str(<<"paper">>)),
     Title |-> Cell(GetOr(paper.title)),
     Description |-> Cell(Str(<<>>)),
     PresentersAuthors |-> Cell(Str(PersonNames(paper.authors))),
     Abstract |-> Cell(GetOr(paper.abstract))]

SessionRows(session) ==
    <<[SessionNum |-> Cell(Str(<<"SESSION", " ">> \o session.sid)),
       Type |-> Cell(GetOr(session.type)),
       Title |-> Cell(GetOr(session.title)),
       Description |-> Cell(GetOr(session.description)),
       PresentersAuthors |-> Cell(Str(PersonNames(session.presenters))),
       Abstract |-> Cell(Str(<<>>))]>>
    \o [i \in 1..Len(session.papers) |-> PaperRow(session.papers[i])]

SessionsSheet(data) ==
    LET ss == SortedSessions(data.sessions)
    IN  Concat([i \in 1..Len(ss) |-> SessionRows(ss[i])])

EventRowOf(event) ==
    [Day |-> Cell(GetOr(event.day)),
     Time |-> Cell(GetOr(event.time)),
     Venue |-> Cell(GetOr(event.venue)),
     Type |-> Cell(GetOr(event.type)),
     Content |-> Cell(GetOr(event.content)),
     Presenters |-> Cell(Str(IF event.has_presenters THEN PersonNames(event.presenters) ELSE <<>>)),
     Abstract |-> Cell(IF event.type = Str(<<"plenary">>) THEN GetOr(event.abstract) ELSE Str(<<>>))]

EventsSheet(data) == [i \in 1..Len(data.events) |-> EventRowOf(data.events[i])]

SlotLabel(day, time, venue) == day \o <<" ", "-", " ">> \o time \o <<" ", "-", " ">> \o venue

FilmRow(film) ==
    [ScreeningSlot |-> Cell(Str(<<>>)),
     FilmTitle |-> Cell(GetOr(film.title)),
     Year |-> Cell(GetOr(film.year)),
     Duration |-> Cell(GetOr(film.duration)),
     Creatives |-> Cell(Str(PersonNames(film.creatives)))]

ScreeningRows(event) ==
    IF ~IsScreening(event) THEN <<>>
    ELSE <<[ScreeningSlot |-> Cell(Str(SlotLabel(Fmt(GetOr(event.day)), Fmt(GetOr(event.time)),
                                                 Fmt(GetOr(event.venue))))),
            FilmTitle |-> Cell(Str(<<>>)),
            Year |-> Cell(Str(<<>>)),
            Duration |-> Cell(Str(<<>>)),
            Creatives |-> Cell(Str(<<>>))]>>
         \o (IF event.has_films THEN [i \in 1..Len(event.films) |-> FilmRow(event.films[i])]
             ELSE <<>>)

ScreeningsSheet(data) ==
    Concat([i \in 1..Len(data.events) |-> ScreeningRows(data.events[i])])

\* export-to-excel.py main(): the workbook written for a document
Workbook(data) ==
    [participants |-> ParticipantsSheet(AddAll(<<>>, Observations(data))),
     sessions |-> SessionsSheet(data),
     events |-> EventsSheet(data),
     screenings |-> ScreeningsSheet(data)]

(***************************************************************************)
(* import-from-excel.py: main()                                            *)
(***************************************************************************)
VARIABLES
    phase,               \* where main() is: "export" (the Extractor has not run),
                         \* "participants", "sessions", "events", "screenings", "done"
    original,            \* conference-data.json
    xlsx,                \* the workbook the Extractor wrote (round trip only)
    participants_df,     \* the rows of each sheet iterated so far
    sessions_df,
    events_df,
    screenings_df,
    participant_lookup,  \* name -> institution
    new_participants,    \* list of (name, institution)
    warnings,
    sessions,            \* dict in insertion order: a list of sessions, each with its sid
    current_session,
    events,
    current_slot,
    screening_films,     \* slot -> list of films
    participants,        \* the Extractor's registry
    observed             \* the person objects fed to add_participant so far

vars == <<phase, original, xlsx, participants_df, sessions_df, events_df, screenings_df,
          participant_lookup, new_participants, warnings, sessions, current_session,
          events, current_slot, screening_films, participants, observed>>

\* lines 82-90: one row of the Participants sheet
LoadRow(lookup, row) ==
    IF is_blank(row.Name) THEN lookup
    ELSE Put(lookup, clean_text(row.Name),
             IF ~is_blank(row.Institution) THEN row.Institution ELSE None)

BlankNameWarning(idx) == [kind |-> "blank_name", excel_row |-> idx + 2]

\* a faulty variant: an inline institution is used even when the name is registered
ResolveOne_inline_wins(st, name_str) ==
    LET parsed == parse_name_with_institution(Str(name_str))
        clean_name == clean_text(Str(parsed.name))
        inline_inst == parsed.inst
    IN  IF is_blank(Str(name_str)) \/ clean_name = <<>> THEN st
        ELSE IF ~is_blank(inline_inst)
        THEN [lookup |-> IF clean_name \in DOMAIN st.lookup THEN st.lookup
                         ELSE Put(st.lookup, clean_name, inline_inst),
              new |-> IF clean_name \in DOMAIN st.lookup THEN st.new
                      ELSE Append(st.new, <<clean_name, inline_inst>>),
              result |-> Append(st.result, [name |-> clean_name, institution |-> inline_inst])]
        ELSE IF clean_name \in DOMAIN st.lookup
        THEN [st EXCEPT !.result = Append(@, [name |-> clean_name,
                                              institution |-> st.lookup[clean_name]])]
        ELSE [lookup |-> Put(st.lookup, clean_name, None),
              new |-> Append(st.new, <<clean_name, None>>),
              result |-> Append(st.result, [name |-> clean_name, institution |-> None])]

\* a faulty variant: a new name without an inline institution is registered but
\* not recorded for the report
ResolveOne_unreported(st, name_str) ==
    LET parsed == parse_name_with_institution(Str(name_str))
        clean_name == clean_text(Str(parsed.name))
        inline_inst == parsed.inst
    IN  IF is_blank(Str(name_str)) \/ clean_name = <<>> THEN st
        ELSE IF clean_name \in DOMAIN st.lookup
        THEN [st EXCEPT !.result = Append(@, [name |-> clean_name,
                                              institution |-> st.lookup[clean_name]])]
        ELSE IF ~is_blank(inline_inst)
        THEN [lookup |-> Put(st.lookup, clean_name, inline_inst),
              new |-> Append(st.new, <<clean_name, inline_inst>>),
              result |-> Append(st.result, [name |-> clean_name, institution |-> inline_inst])]
        ELSE [lookup |-> Put(st.lookup, clean_name, None),
              new |-> st.new,
              result |-> Append(st.result, [name |-> clean_name, institution |-> None])]

\* lines 104-139: one name of names_list; st = [lookup, new, result]
ResolveOne(st, name_str) ==
    LET parsed == parse_name_with_institution(Str(name_str))
        clean_name == clean_text(Str(parsed.name))
        inline_inst == parsed.inst
    IN  IF is_blank(Str(name_str)) \/ clean_name = <<>> THEN st
        ELSE IF clean_name \in DOMAIN st.lookup
        THEN [st EXCEPT !.result = Append(@, [name |-> clean_name,
                                              institution |-> st.lookup[clean_name]])]
        ELSE IF ~is_blank(inline_inst)
        THEN [lookup |-> Put(st.lookup, clean_name, inline_inst),
              new |-> Append(st.new, <<clean_name, inline_inst>>),
              result |-> Append(st.result, [name |-> clean_name, institution |-> inline_inst])]
        ELSE [lookup |-> Put(st.lookup, clean_name, None),
              new |-> Append(st.new, <<clean_name, None>>),
              result |-> Append(st.result, [name |-> clean_name, institution |-> None])]

RECURSIVE ResolveAll(_, _)
ResolveAll(st, names_list) ==
    IF names_list = <<>> THEN st
    ELSE ResolveAll(ResolveOne(st, names_list[1]), Tail(names_list))

\* a faulty variant: a registered name's institution is updated from the last name resolved
smart_lookup_people_update(lookup, new, names_list) ==
    LET r == ResolveAll([lookup |-> lookup, new |-> new, result |-> <<>>], names_list)
        last == IF names_list = <<>> THEN [name |-> <<>>, inst |-> None]
                ELSE parse_name_with_institution(Str(names_list[Len(names_list)]))
    IN  IF last.name \in DOMAIN r.lookup /\ ~is_blank(last.inst)
        THEN [r EXCEPT !.lookup = Put(r.lookup, last.name, last.inst)]
        ELSE r

\* smart_lookup_people(names_list) on the registry and report list given:
\* [lookup, new, result]
smart_lookup_people(lookup, new, names_list) ==
    ResolveAll([lookup |-> lookup, new |-> new, result |-> <<>>], names_list)

\* sessions[sid] = session: an existing key keeps its place
DictSet(d, session) ==
    IF \E i \in 1..Len(d) : d[i].sid = session.sid
    THEN [i \in 1..Len(d) |-> IF d[i].sid = session.sid THEN session ELSE d[i]]
    ELSE Append(d, session)

HasKey(d, sid) == \E i \in 1..Len(d) : d[i].sid = sid

\* line 154
IsHeaderCell(session_num) ==
    session_num.kind = "str" /\ StartsWith(session_num.s, "SESSION")

\* line 155
SidOf(session_num) == Strip(RemoveWord(session_num.s, "SESSION"))

\* lines 160-162
DescriptionOf(row, sid) ==
    LET description == clean_text(row.Description)
        original_panel_descriptions == original.panel_descriptions
    IN  IF description = <<>> /\ DOMAIN original_panel_descriptions # {}
        THEN clean_text(IF sid \in DOMAIN original_panel_descriptions
                        THEN original_panel_descriptions[sid] ELSE Str(<<>>))
        ELSE description

\* a faulty variant: the paper is appended to every session rebuilt so far
AppendPaper_all(d, sid, paper) ==
    [i \in 1..Len(d) |-> [d[i] EXCEPT !.papers = Append(@, paper)]]

\* line 180
AppendPaper(d, sid, paper) ==
    [i \in 1..Len(d) |-> IF d[i].sid = sid THEN [d[i] EXCEPT !.papers = Append(@, paper)]
                         ELSE d[i]]

\* a faulty variant: a paper row is processed whether or not a session is open
IsPaperRow_any(row, cur) == row.Type = Str(<<"paper">>)

\* line 172: the row is a paper row and a session is open
IsPaperRow(row, cur) == row.Type = Str(<<"paper">>) /\ Truthy(cur)

\* lines 151-180: one row of the Sessions & Papers sheet
ReadSessionRow(row) ==
    /\ sessions_df' = Append(sessions_df, row)
    /\ IF IsHeaderCell(row.SessionNum)
       THEN LET sid == SidOf(row.SessionNum)
                r == smart_lookup_people(participant_lookup, new_participants,
                                         parse_names(row.PresentersAuthors))
            IN  /\ current_session' = Str(sid)
                /\ sessions' = DictSet(sessions,
                                       [sid |-> sid,
                                        type |-> clean_text(row.Type),
                                        title |-> clean_text(row.Title),
                                        description |-> DescriptionOf(row, sid),
                                        presenters |-> r.result,
                                        papers |-> <<>>])
                /\ participant_lookup' = r.lookup
                /\ new_participants' = r.new
       ELSE IF IsPaperRow(row, current_session)
       THEN LET r == smart_lookup_people(participant_lookup, new_participants,
                                         parse_names(row.PresentersAuthors))
            IN  /\ sessions' = AppendPaper(sessions, current_session.s,
                                           [title |-> clean_text(row.Title),
                                            abstract |-> clean_text(row.Abstract),
                                            authors |-> r.result])
                /\ participant_lookup' = r.lookup
                /\ new_participants' = r.new
                /\ UNCHANGED current_session
       ELSE UNCHANGED <<sessions, current_session, participant_lookup, new_participants>>
    /\ UNCHANGED <<phase, original, xlsx, participants_df, events_df, screenings_df, warnings,
                   events, current_slot, screening_films, participants, observed>>

\* lines 82-90 as a step
ReadParticipantRow(row) ==
    /\ participants_df' = Append(participants_df, row)
    /\ participant_lookup' = LoadRow(participant_lookup, row)
    /\ warnings' = IF is_blank(row.Name)
                   THEN Append(warnings, BlankNameWarning(Len(participants_df)))
                   ELSE warnings
    /\ UNCHANGED <<phase, original, xlsx, sessions_df, events_df, screenings_df,
                   new_participants, sessions, current_session, events, current_slot,
                   screening_films, participants, observed>>

\* lines 220-228: the first original event at the same time, venue and day
MatchOriginal(event) ==
    LET orig == original.events
        hits == {i \in 1..Len(orig) : /\ Get(orig[i].time) = Str(event.time)
                                      /\ Get(orig[i].venue) = Str(event.venue)
                                      /\ Get(orig[i].day) = Str(event.day)}
    IN  IF hits = {} THEN event
        ELSE LET o == orig[CHOOSE i \in hits : \A j \in hits : i <= j]
             IN  [event EXCEPT
                    !.session_num = IF o.session_num.kind # "absent" THEN o.session_num ELSE @,
                    !.affiliation = IF o.affiliation.kind # "absent" THEN o.affiliation ELSE @]

\* lines 188-230: one row of the Events sheet
ReadEventRow(row) ==
    LET day_val == clean_text(row.Day)
        time_val == format_time_value(row.Time)
        venue_val == clean_text(row.Venue)
        content_val == clean_text(row.Content)
        type_val == clean_text(row.Type)
        presenter_names == parse_names(row.Presenters)
        r == smart_lookup_people(participant_lookup, new_participants, presenter_names)
        abstract == clean_text(row.Abstract)
        event == [day |-> day_val, time |-> time_val, venue |-> venue_val,
                  content |-> content_val, session_num |-> None, type |-> type_val,
                  has_presenters |-> presenter_names # <<>>,
                  presenters |-> IF presenter_names # <<>> THEN r.result ELSE <<>>,
                  abstract |-> IF type_val = <<"plenary">> /\ abstract # <<>>
                               THEN Str(abstract) ELSE Absent,
                  affiliation |-> Absent,
                  has_films |-> FALSE, films |-> <<>>]
    IN  /\ events_df' = Append(events_df, row)
        /\ IF day_val = <<>> /\ time_val = <<>> /\ venue_val = <<>>
              /\ content_val = <<>> /\ type_val = <<>>
           THEN UNCHANGED <<events, participant_lookup, new_participants>>
           ELSE /\ events' = Append(events, MatchOriginal(event))
                /\ participant_lookup' = IF presenter_names # <<>> THEN r.lookup
                                         ELSE participant_lookup
                /\ new_participants' = IF presenter_names # <<>> THEN r.new
                                       ELSE new_participants
        /\ UNCHANGED <<phase, original, xlsx, participants_df, sessions_df, screenings_df,
                       warnings, sessions, current_session, current_slot, screening_films,
                       participants, observed>>

\* a faulty variant: the test is "is not None" instead of truthiness
MissingSession_not_none(event, d) ==
    /\ event.session_num # None
    /\ ~(event.session_num.kind = "str" /\ HasKey(d, event.session_num.s))

\* line 236: the event references a session that was not rebuilt
MissingSession(event, d) ==
    /\ Truthy(event.session_num)
    /\ ~(event.session_num.kind = "str" /\ HasKey(d, event.session_num.s))

MissingSessionWarning(event) ==
    [kind |-> "missing_session", content |-> event.content, day |-> event.day,
     time |-> event.time, venue |-> event.venue, session_num |-> event.session_num]

\* lines 233-243: the events kept and the warnings recorded, in order
RECURSIVE FilterEvents(_, _)
FilterEvents(evs, d) ==
    IF evs = <<>> THEN [kept |-> <<>>, warned |-> <<>>]
    ELSE LET rest == FilterEvents(Tail(evs), d)
         IN  IF MissingSession(evs[1], d)
             THEN [rest EXCEPT !.warned = <<MissingSessionWarning(evs[1])>> \o @]
             ELSE [rest EXCEPT !.kept = <<evs[1]>> \o @]

\* int(cell) of a cell that is not blank
IntCell(v) == IF v.kind = "num" THEN v ELSE Num(IntOf(Strip(v.s)))

\* lines 264-269
FilmOf(row, creatives) ==
    [title |-> clean_text(row.FilmTitle),
     year |-> IF ~is_blank(row.Year) THEN IntCell(row.Year) ELSE None,
     duration |-> IF ~is_blank(row.Duration) THEN IntCell(row.Duration) ELSE None,
     creatives |-> creatives]

\* a faulty variant: a slot row always starts from an empty film list
OpenSlot_reset(films, slot) == Put(films, slot, <<>>)

\* lines 257-259: a slot row
OpenSlot(films, slot) == IF slot \notin DOMAIN films THEN Put(films, slot, <<>>) ELSE films

\* lines 253-270: one row of the Screenings sheet
ReadScreeningRow(row) ==
    /\ screenings_df' = Append(screenings_df, row)
    /\ IF ~is_blank(row.ScreeningSlot)
       THEN LET slot == Strip(ToStr(row.ScreeningSlot))
            IN  /\ current_slot' = Str(slot)
                /\ screening_films' = OpenSlot(screening_films, slot)
                /\ UNCHANGED <<participant_lookup, new_participants>>
       ELSE IF Truthy(current_slot) /\ ~is_blank(row.FilmTitle)
       THEN LET r == smart_lookup_people(participant_lookup, new_participants,
                                         parse_names(row.Creatives))
            IN  /\ screening_films' = [screening_films EXCEPT ![current_slot.s] =
                                          Append(@, FilmOf(row, r.result))]
                /\ participant_lookup' = r.lookup
                /\ new_participants' = r.new
                /\ UNCHANGED current_slot
       ELSE UNCHANGED <<current_slot, screening_films, participant_lookup, new_participants>>
    /\ UNCHANGED <<phase, original, xlsx, participants_df, sessions_df, events_df, warnings,
                   sessions, current_session, events, participants, observed>>

\* lines 273-277
AttachFilms(event, films) ==
    LET slot_id == SlotLabel(event.day, event.time, event.venue)
    IN  IF event.type = <<"screening">> /\ slot_id \in DOMAIN films
        THEN [event EXCEPT !.has_films = TRUE, !.films = films[slot_id]]
        ELSE event

\* lines 282-292: the document written
Output ==
    [events |-> events,
     sessions |-> sessions,
     panel_descriptions |->
        LET ids == {sessions[i].sid : i \in {j \in 1..Len(sessions) : sessions[j].description # <<>>}}
        IN  [sid \in ids |->
                (sessions[CHOOSE i \in 1..Len(sessions) : sessions[i].sid = sid]).description]]

(***************************************************************************)
(* The steps of main() between the sheets                                  *)
(***************************************************************************)
\* line 92: the Participants sheet is exhausted
ParticipantsLoaded ==
    /\ phase = "participants"
    /\ phase' = "sessions"
    /\ UNCHANGED <<original, xlsx, participants_df, sessions_df, events_df, screenings_df,
                   participant_lookup, new_participants, warnings, sessions, current_session,
                   events, current_slot, screening_films, participants, observed>>

\* line 185: the Sessions & Papers sheet is exhausted
SessionsRebuilt ==
    /\ phase = "sessions"
    /\ phase' = "events"
    /\ UNCHANGED <<original, xlsx, participants_df, sessions_df, events_df, screenings_df,
                   participant_lookup, new_participants, warnings, sessions, current_session,
                   events, current_slot, screening_films, participants, observed>>

\* lines 232-243: the Events sheet is exhausted; events of missing sessions are dropped
EventsRebuilt ==
    /\ phase = "events"
    /\ phase' = "screenings"
    /\ LET f == FilterEvents(events, sessions)
       IN  /\ events' = f.kept
           /\ warnings' = warnings \o f.warned
    /\ UNCHANGED <<original, xlsx, participants_df, sessions_df, events_df, screenings_df,
                   participant_lookup, new_participants, sessions, current_session,
                   current_slot, screening_films, participants, observed>>

\* lines 272-295: the Screenings sheet is exhausted; films are attached, output written
Finish ==
    /\ phase = "screenings"
    /\ phase' = "done"
    /\ events' = [i \in 1..Len(events) |-> AttachFilms(events[i], screening_films)]
    /\ UNCHANGED <<original, xlsx, participants_df, sessions_df, events_df, screenings_df,
                   participant_lookup, new_participants, warnings, sessions, current_session,
                   current_slot, screening_films, participants, observed>>

(***************************************************************************)
(* Inputs: the sheets a person may have edited, and the original document  *)
(***************************************************************************)
MaxRows == 4

T(word) == Str(<<word>>)

ParticipantRowSet ==
    {[Name |-> T("A"), Institution |-> T("MIT")],
     [Name |-> Str(<<"A", " ">>), Institution |-> NaN],
     [Name |-> T("B"), Institution |-> Str(<<" ">>)],
     [Name |-> NaN, Institution |-> T("MIT")]}

SessionRowSet ==
    {[SessionNum |-> Str(<<"SESSION", " ", "1">>), Type |-> T("panel"), Title |-> T("T1"),
      Description |-> NaN, PresentersAuthors |-> Str(<<"A", " ", "(", "H", ")", ";", " ", "C">>),
      Abstract |-> NaN],
     [SessionNum |-> Str(<<"SESSION", " ", "2">>), Type |-> T("panel"), Title |-> T("T2"),
      Description |-> T("d2"), PresentersAuthors |-> NaN, Abstract |-> NaN],
     [SessionNum |-> NaN, Type |-> T("paper"), Title |-> T("P1"), Description |-> NaN,
      PresentersAuthors |-> Str(<<"C", "(", "H", ")">>), Abstract |-> T("a1")],
     [SessionNum |-> NaN, Type |-> T("paper"), Title |-> T("P2"), Description |-> NaN,
      PresentersAuthors |-> Str(<<"B", ";", "D", " ", "(", "MIT", ")", " ">>), Abstract |-> NaN],
     [SessionNum |-> NaN, Type |-> T("note"), Title |-> T("N1"), Description |-> NaN,
      PresentersAuthors |-> NaN, Abstract |-> NaN]}

EventRowSet ==
    {[Day |-> T("D1"), Time |-> Num(900), Venue |-> T("V1"), Type |-> T("panel"),
      Content |-> T("c1"), Presenters |-> Str(<<"B", " ", "(", "H", ")">>), Abstract |-> NaN],
     [Day |-> T("D2"), Time |-> Str(<<"0", "9", "0", "0">>), Venue |-> T("V1"),
      Type |-> T("plenary"), Content |-> T("c2"), Presenters |-> NaN, Abstract |-> T("a2")],
     [Day |-> T("D1"), Time |-> Str(<<"1", "0", "0", "0">>), Venue |-> T("V1"),
      Type |-> T("screening"), Content |-> T("c3"), Presenters |-> NaN, Abstract |-> NaN],
     [Day |-> NaN, Time |-> NaN, Venue |-> NaN, Type |-> NaN, Content |-> NaN,
      Presenters |-> NaN, Abstract |-> NaN]}

Slot1 == SlotLabel(<<"D1">>, <<"1", "0", "0", "0">>, <<"V1">>)
Slot2 == SlotLabel(<<"D2">>, <<"1", "0", "0", "0">>, <<"V1">>)

ScreeningRowSet ==
    {[ScreeningSlot |-> Str(Slot1), FilmTitle |-> NaN, Year |-> NaN, Duration |-> NaN,
      Creatives |-> NaN],
     [ScreeningSlot |-> Str(<<" ">> \o Slot2), FilmTitle |-> NaN, Year |-> NaN, Duration |-> NaN,
      Creatives |-> NaN],
     [ScreeningSlot |-> NaN, FilmTitle |-> T("F1"), Year |-> Num(1999), Duration |-> NaN,
      Creatives |-> Str(<<"C", " ", "(", "H", ")">>)],
     [ScreeningSlot |-> NaN, FilmTitle |-> T("F2"), Year |-> NaN, Duration |-> Num(12),
      Creatives |-> Str(<<"A", ";", "E", " ", "(", " ", ")">>)]}

\* an event of the original document
OrigEvent(day, time, venue, type, content, session_num) ==
    [day |-> day, time |-> time, venue |-> venue, content |-> content, type |-> type,
     session_num |-> session_num, affiliation |-> Absent, abstract |-> Absent,
     has_presenters |-> FALSE, presenters |-> <<>>, has_films |-> FALSE, films |-> <<>>]

OriginalSet ==
    {[sessions |-> <<>>,
      events |-> <<OrigEvent(T("D1"), Str(<<"0", "9", "0", "0">>), T("V1"), T("panel"), T("c1"),
                             T("1")),
                   OrigEvent(T("D2"), Str(<<"0", "9", "0", "0">>), T("V1"), T("plenary"), T("c2"),
                             T("5")),
                   OrigEvent(T("D1"), Str(<<"1", "0", "0", "0">>), T("V1"), T("screening"),
                             T("c3"), Str(<<>>))>>,
      panel_descriptions |-> (<<"1">> :> T("pd1"))],
     [sessions |-> <<>>, events |-> <<>>, panel_descriptions |-> <<>>]}

EmptyWorkbook == [participants |-> <<>>, sessions |-> <<>>, events |-> <<>>, screenings |-> <<>>]

RowsRead == Len(participants_df) + Len(sessions_df) + Len(events_df) + Len(screenings_df)

(***************************************************************************)
(* Spec: the Reconciler over sheets read row by row                        *)
(***************************************************************************)
InitState(phase0, docs) ==
    /\ phase = phase0
    /\ original \in docs
    /\ xlsx = EmptyWorkbook
    /\ participants_df = <<>>
    /\ sessions_df = <<>>
    /\ events_df = <<>>
    /\ screenings_df = <<>>
    /\ participant_lookup = <<>>
    /\ new_participants = <<>>
    /\ warnings = <<>>
    /\ sessions = <<>>
    /\ current_session = None
    /\ events = <<>>
    /\ current_slot = None
    /\ screening_films = <<>>
    /\ participants = <<>>
    /\ observed = <<>>

Init == InitState("participants", OriginalSet)

ParticipantRow ==
    /\ phase = "participants"
    /\ RowsRead < MaxRows
    /\ \E row \in ParticipantRowSet : ReadParticipantRow(row)

SessionRow ==
    /\ phase = "sessions"
    /\ RowsRead < MaxRows
    /\ \E row \in SessionRowSet : ReadSessionRow(row)

EventRow ==
    /\ phase = "events"
    /\ RowsRead < MaxRows
    /\ \E row \in EventRowSet : ReadEventRow(row)

ScreeningRow ==
    /\ phase = "screenings"
    /\ RowsRead < MaxRows
    /\ \E row \in ScreeningRowSet : ReadScreeningRow(row)

Next ==
    \/ ParticipantRow
    \/ ParticipantsLoaded
    \/ SessionRow
    \/ SessionsRebuilt
    \/ EventRow
    \/ EventsRebuilt
    \/ ScreeningRow
    \/ Finish

Spec == Init /\ [][Next]_vars

(***************************************************************************)
(* SpecExtract: the Extractor's registry over person objects fed one by one *)
(***************************************************************************)
MaxObs == 4

PersonSet ==
    {[name |-> nm, institution |-> inst] :
        nm \in {<<"A">>, <<"B">>},
        inst \in {None, Str(<<>>), T("MIT"), T("H")}}

Observe ==
    /\ phase = "export"
    /\ Len(observed) < MaxObs
    /\ \E person_obj \in PersonSet :
          /\ participants' = add_participant(participants, person_obj)
          /\ observed' = Append(observed, person_obj)
    /\ UNCHANGED <<phase, original, xlsx, participants_df, sessions_df, events_df,
                   screenings_df, participant_lookup, new_participants, warnings, sessions,
                   current_session, events, current_slot, screening_films>>

InitExtract == InitState("export", {[sessions |-> <<>>, events |-> <<>>, panel_descriptions |-> <<>>]})

NextExtract == Observe

SpecExtract == InitExtract /\ [][NextExtract]_vars

\* the institutions observed for a name, in order
InstitutionsOf(name) ==
    LET idx == SelectSeq([i \in 1..Len(observed) |-> i], LAMBDA i : observed[i].name = name)
    IN  [i \in 1..Len(idx) |-> Get(observed[idx[i]].institution)]

\* the first non-null institution of insts, or null
FirstNonNull(insts) ==
    IF \E i \in 1..Len(insts) : insts[i] # None
    THEN insts[CHOOSE i \in 1..Len(insts) : insts[i] # None /\ \A j \in 1..(i - 1) : insts[j] = None]
    ELSE None

\* the first non-empty institution of insts (neither null nor ''), or the first one
FirstNonEmpty(insts) ==
    IF \E i \in 1..Len(insts) : insts[i] \notin {None, Str(<<>>)}
    THEN insts[CHOOSE i \in 1..Len(insts) :
                  insts[i] \notin {None, Str(<<>>)}
                  /\ \A j \in 1..(i - 1) : insts[j] \in {None, Str(<<>>)}]
    ELSE insts[1]

ObservedNames == {observed[i].name : i \in 1..Len(observed)}

\* C2 as stated: the registry holds, for every observed name, the first non-null
\* institution observed for it, or null when every observation was null.
C2_FirstNonNull ==
    /\ DOMAIN participants = ObservedNames
    /\ \A name \in ObservedNames :
          participants[name] = FirstNonNull(InstitutionsOf(name))

\* C2 amended: the registry holds, for every observed name, the first non-empty
\* institution observed for it (neither null nor the empty string), or the
\* institution of the first observation of that name when none is non-empty.
C2_FirstNonEmpty ==
    /\ DOMAIN participants = ObservedNames
    /\ \A name \in ObservedNames :
          participants[name] = FirstNonEmpty(InstitutionsOf(name))

C2_Witness ==
    /\ Len(observed) = MaxObs
    /\ \E i, j, k \in 1..Len(observed) :
          /\ i < j /\ j < k
          /\ observed[i].name = observed[j].name /\ observed[j].name = observed[k].name
          /\ ~Truthy(Get(observed[i].institution))
          /\ Truthy(Get(observed[j].institution))
          /\ Truthy(Get(observed[k].institution))
          /\ observed[j].institution # observed[k].institution
          /\ participants[observed[j].name] = observed[j].institution

(***************************************************************************)
(* Properties of the Reconciler (Spec)                                     *)
(***************************************************************************)
Range(f) == {f[i] : i \in DOMAIN f}

PeopleIn(lists) == UNION {Range(l) : l \in lists}

\* every participant reference embedded in the sessions given
SessionRefs(d) ==
    PeopleIn({d[i].presenters : i \in 1..Len(d)})
    \cup UNION {PeopleIn({d[i].papers[j].authors : j \in 1..Len(d[i].papers)}) : i \in 1..Len(d)}

FilmRefs(films) == PeopleIn({films[j].creatives : j \in 1..Len(films)})

EventRefs(evs) ==
    PeopleIn({evs[i].presenters : i \in 1..Len(evs)})
    \cup UNION {FilmRefs(evs[i].films) : i \in 1..Len(evs)}

\* the references embedded in the output document
OutputRefs == SessionRefs(Output.sessions) \cup EventRefs(Output.events)

\* every reference resolved so far, kept or not
AllRefs ==
    SessionRefs(sessions) \cup EventRefs(events)
    \cup UNION {FilmRefs(screening_films[k]) : k \in DOMAIN screening_films}

\* the names loaded from the Participants sheet
LoadedNames ==
    {clean_text(participants_df[i].Name) :
        i \in {j \in 1..Len(participants_df) : ~is_blank(participants_df[j].Name)}}

\* C3: when the Reconciler has finished, every participant reference embedded in
\* the output carries the institution the final registry holds for its name.
C3_SingleSourceOfTruth ==
    phase = "done" =>
        \A ref \in OutputRefs :
            /\ ref.name \in DOMAIN participant_lookup
            /\ ref.institution = participant_lookup[ref.name]

\* a finished run whose output embeds a name loaded from the Participants sheet
\* and a name declared inline, both with an institution
C3_Witness ==
    /\ phase = "done"
    /\ \E r1, r2 \in OutputRefs :
          /\ r1.name \in LoadedNames /\ Truthy(r1.institution)
          /\ r2.name \notin LoadedNames /\ Truthy(r2.institution)

\* the name tokens that occur in the cells of the sheets
TokenSet ==
    UNION ({Range(parse_names(row.PresentersAuthors)) : row \in SessionRowSet}
           \cup {Range(parse_names(row.Presenters)) : row \in EventRowSet}
           \cup {Range(parse_names(row.Creatives)) : row \in ScreeningRowSet})

NameOfToken(tok) == clean_text(Str(parse_name_with_institution(Str(tok)).name))

\* C4: resolving a token whose trimmed name is in the registry returns the
\* registry's institution, discards any inline annotation and leaves the registry
\* and the new-participant list unchanged; and the institution a new name got at
\* its first occurrence is the one every reference to that name carries.
C4_RegistryWins ==
    /\ \A tok \in TokenSet :
          NameOfToken(tok) \in DOMAIN participant_lookup =>
              smart_lookup_people(participant_lookup, new_participants, <<tok>>) =
                  [lookup |-> participant_lookup,
                   new |-> new_participants,
                   result |-> <<[name |-> NameOfToken(tok),
                                 institution |-> participant_lookup[NameOfToken(tok)]]>>]
    /\ \A i \in 1..Len(new_participants) :
          /\ participant_lookup[new_participants[i][1]] = new_participants[i][2]
          /\ \A ref \in AllRefs :
                ref.name = new_participants[i][1] => ref.institution = new_participants[i][2]

\* "A (H)" was resolved against a registry holding A with MIT, and "C(H)" after
\* C had been registered without an institution by an earlier cell
C4_Witness ==
    /\ \E i \in 1..Len(sessions_df) : \E j \in 1..Len(sessions_df) :
          /\ i < j
          /\ <<"A", " ", "(", "H", ")">> \in Range(parse_names(sessions_df[i].PresentersAuthors))
          /\ <<"C", "(", "H", ")">> \in Range(parse_names(sessions_df[j].PresentersAuthors))
    /\ [name |-> <<"A">>, institution |-> T("MIT")] \in SessionRefs(sessions)
    /\ \E i \in 1..Len(sessions) : \E j \in 1..Len(sessions[i].papers) :
          [name |-> <<"C">>, institution |-> None] \in Range(sessions[i].papers[j].authors)
    /\ <<<<"C">>, None>> \in Range(new_participants)

\* C5 as stated: no step of the Reconciler turns a non-null institution of the
\* registry into null (or removes the name).
C5_NeverLosesInstitution ==
    [][\A name \in DOMAIN participant_lookup :
          participant_lookup[name] # None =>
              /\ name \in DOMAIN participant_lookup'
              /\ participant_lookup'[name] # None]_vars

\* a session header row: its Session # cell reads 'SESSION <id>'
IsHeaderRow(row) ==
    /\ row.SessionNum.kind = "str"
    /\ Len(row.SessionNum.s) >= 3
    /\ row.SessionNum.s[1] = "SESSION"
    /\ row.SessionNum.s[2] = " "

HeaderId(row) == SubSeq(row.SessionNum.s, 3, Len(row.SessionNum.s))

HeaderRows == {h \in 1..Len(sessions_df) : IsHeaderRow(sessions_df[h])}

\* the row after the group a header row opens
GroupEnd(h) ==
    IF \E k \in HeaderRows : k > h
    THEN CHOOSE k \in HeaderRows : k > h /\ \A m \in HeaderRows : m > h => k <= m
    ELSE Len(sessions_df) + 1

\* the paper rows of the group a header row opens, in row order
PaperRowsOf(h) ==
    SelectSeq([k \in 1..(GroupEnd(h) - h - 1) |-> h + k],
              LAMBDA j : sessions_df[j].Type = T("paper"))

LastHeaderOf(sid) ==
    CHOOSE h \in HeaderRows :
        /\ HeaderId(sessions_df[h]) = sid
        /\ \A k \in HeaderRows : HeaderId(sessions_df[k]) = sid => k <= h

AuthorNames(people) == [i \in 1..Len(people) |-> people[i].name]

PaperView(paper) ==
    [title |-> paper.title, abstract |-> paper.abstract, authors |-> AuthorNames(paper.authors)]

RowView(row) ==
    LET toks == parse_names(row.PresentersAuthors)
    IN  [title |-> clean_text(row.Title),
         abstract |-> clean_text(row.Abstract),
         authors |-> [i \in 1..Len(toks) |-> NameOfToken(toks[i])]]

\* C6: after any rows of the Sessions & Papers sheet, the rebuilt sessions are
\* those of the header rows, and the papers of each are exactly the paper rows
\* between the (last) header row of that id and the next header row, in row
\* order; so a paper row before the first header row is in no session.
C6_SessionGrouping ==
    /\ {sessions[i].sid : i \in 1..Len(sessions)} = {HeaderId(sessions_df[h]) : h \in HeaderRows}
    /\ \A i \in 1..Len(sessions) :
          LET rows == PaperRowsOf(LastHeaderOf(sessions[i].sid))
          IN  [j \in 1..Len(sessions[i].papers) |-> PaperView(sessions[i].papers[j])]
              = [k \in 1..Len(rows) |-> RowView(sessions_df[rows[k]])]

\* header 1, a paper, header 2, another paper: one paper in each session
C6_Witness ==
    /\ Len(sessions_df) = 4
    /\ HeaderRows = {1, 3}
    /\ Len(sessions) = 2
    /\ Len(sessions[1].papers) = 1
    /\ Len(sessions[2].papers) = 1
    /\ sessions[1].papers[1].title # sessions[2].papers[1].title

\* C8 as stated: the sessions the Reconciler emits are in ascending numeric order
\* of their ids.
C8_SessionsSortedById ==
    phase = "done" =>
        \A i \in 1..Len(Output.sessions) : \A j \in 1..Len(Output.sessions) :
            i < j => IntOf(Output.sessions[i].sid) <= IntOf(Output.sessions[j].sid)

\* a paper row read before any session header row
OrphanPaperStep ==
    /\ sessions_df' # sessions_df
    /\ HeaderRows = {}
    /\ ~IsHeaderRow(sessions_df'[Len(sessions_df')])
    /\ sessions_df'[Len(sessions_df')].Type = T("paper")

\* a slot row: its Screening Slot cell is not blank
IsSlotRow(row) == ~is_blank(row.ScreeningSlot)

SlotRows == {h \in 1..Len(screenings_df) : IsSlotRow(screenings_df[h])}

\* a film row read before any screening-slot row
OrphanFilmStep ==
    /\ screenings_df' # screenings_df
    /\ SlotRows = {}
    /\ ~IsSlotRow(screenings_df'[Len(screenings_df')])
    /\ ~is_blank(screenings_df'[Len(screenings_df')].FilmTitle)

\* C10 as stated: an orphan paper or film row adds a warning to the diagnostics.
C10_OrphanRowsWarned ==
    [][(OrphanPaperStep \/ OrphanFilmStep) => Len(warnings') = Len(warnings) + 1]_vars

\* C10 amended: an orphan paper or film row is dropped without a trace: sessions,
\* films, registry, new-participant list and warnings are all left as they were,
\* and the Reconciler stays in the same sheet, ready for the following rows.
C10_OrphanRowsDroppedSilently ==
    [][(OrphanPaperStep \/ OrphanFilmStep) =>
          UNCHANGED <<warnings, sessions, current_session, screening_films, current_slot,
                      participant_lookup, new_participants, events, phase>>]_vars

\* an orphan paper row was read, then a header row and a paper row that was kept
C10_Witness ==
    /\ Len(sessions_df) = 3
    /\ sessions_df[1].Type = T("paper") /\ ~IsHeaderRow(sessions_df[1])
    /\ IsHeaderRow(sessions_df[2])
    /\ sessions_df[3] = sessions_df[1]
    /\ Len(sessions) = 1
    /\ Len(sessions[1].papers) = 1
    /\ warnings = <<>>

SessionIds == {sessions[i].sid : i \in 1..Len(sessions)}

\* C7 as stated: once the events are filtered, no event kept carries a non-null
\* session_num that is not the id of a rebuilt session.
C7_NoNonNullDangling ==
    phase \in {"screenings", "done"} =>
        \A i \in 1..Len(events) :
            events[i].session_num # None =>
                events[i].session_num.kind = "str" /\ events[i].session_num.s \in SessionIds

\* an event whose session_num is non-empty and is not the id of a rebuilt session
Dangling(event) ==
    /\ event.session_num \notin {None, Str(<<>>)}
    /\ ~(event.session_num.kind = "str" /\ event.session_num.s \in SessionIds)

\* the session_num the original document gives for (day, time, venue): that of its
\* first event there, null when it has none or that event has no session_num
OriginalSessionNum(day, time, venue) ==
    LET orig == original.events
        hits == {i \in 1..Len(orig) :
                    orig[i].day = Str(day) /\ orig[i].time = Str(time) /\ orig[i].venue = Str(venue)}
    IN  IF hits = {} THEN None
        ELSE Get(orig[CHOOSE i \in hits : \A j \in hits : i <= j].session_num)

\* C7 amended: an event read from the Events sheet gets the session_num of the
\* first original event with equal (day, time, venue); the filter removes exactly
\* the events whose session_num is non-empty (neither null nor '') and is not
\* the id of a rebuilt session, adds one warning per removed event naming its
\* content, day, time and venue, keeps the other events in sheet order without
\* a warning; and from then on no event carries such a session_num.
C7_OrphanSessionRemoval ==
    [][/\ (phase = "events" /\ Len(events') = Len(events) + 1) =>
              LET e == events'[Len(events')]
              IN  e.session_num = OriginalSessionNum(e.day, e.time, e.venue)
       /\ (phase = "events" /\ phase' = "screenings") =>
              LET dropped == SelectSeq(events, Dangling)
              IN  /\ events' = SelectSeq(events, LAMBDA e : ~Dangling(e))
                  /\ Len(warnings') = Len(warnings) + Len(dropped)
                  /\ SubSeq(warnings', 1, Len(warnings)) = warnings
                  /\ \A k \in 1..Len(dropped) :
                        LET w == warnings'[Len(warnings) + k]
                        IN  /\ w.kind = "missing_session"
                            /\ w.content = dropped[k].content
                            /\ w.day = dropped[k].day
                            /\ w.time = dropped[k].time
                            /\ w.venue = dropped[k].venue
       /\ phase' \in {"screenings", "done"} =>
              \A i \in 1..Len(events') : ~Dangling(events'[i])
      ]_vars

\* the filter dropped one event with a warning and kept an event of a rebuilt
\* session and an event whose session_num is ''
C7_Witness ==
    /\ phase = "screenings"
    /\ Len(events_df) = 3
    /\ Len(events) = 2
    /\ \E i \in 1..Len(warnings) : warnings[i].kind = "missing_session"
    /\ \E i \in 1..Len(events) : Truthy(events[i].session_num)
    /\ \E i \in 1..Len(events) : events[i].session_num = Str(<<>>)

FilmRows == {j \in 1..Len(screenings_df) :
                ~IsSlotRow(screenings_df[j]) /\ ~is_blank(screenings_df[j].FilmTitle)}

\* the nearest slot row before row j (0 when there is none)
SlotRowBefore(j) ==
    IF \E h \in SlotRows : h < j
    THEN CHOOSE h \in SlotRows : h < j /\ \A k \in SlotRows : k < j => k <= h
    ELSE 0

FilmView(film) ==
    [title |-> film.title, year |-> film.year, duration |-> film.duration,
     creatives |-> AuthorNames(film.creatives)]

FilmRowView(row) ==
    LET toks == parse_names(row.Creatives)
    IN  [title |-> clean_text(row.FilmTitle),
         year |-> IF is_blank(row.Year) THEN None ELSE row.Year,
         duration |-> IF is_blank(row.Duration) THEN None ELSE row.Duration,
         creatives |-> [i \in 1..Len(toks) |-> NameOfToken(toks[i])]]

Views(rows) == [k \in 1..Len(rows) |-> FilmRowView(screenings_df[rows[k]])]

RowSeq == [k \in 1..Len(screenings_df) |-> k]

SlotKey(row) == Strip(ToStr(row.ScreeningSlot))

\* C9 as stated: the slot keys are the (trimmed) texts of the slot cells, and the
\* films under a key are the film rows after the last slot row carrying that key
\* and before the next slot row, in row order.
C9_FilmsAfterLastSlotRow ==
    /\ DOMAIN screening_films = {SlotKey(screenings_df[h]) : h \in SlotRows}
    /\ \A slot \in DOMAIN screening_films :
          LET last == CHOOSE h \in SlotRows :
                          /\ SlotKey(screenings_df[h]) = slot
                          /\ \A k \in SlotRows : SlotKey(screenings_df[k]) = slot => k <= h
          IN  [j \in 1..Len(screening_films[slot]) |-> FilmView(screening_films[slot][j])]
              = Views(SelectSeq(RowSeq, LAMBDA j : j \in FilmRows /\ SlotRowBefore(j) = last))

\* C9 amended: a row with a non-blank Screening Slot cell makes the trimmed cell
\* text the active slot and gives that key an empty film list only if the key has
\* none yet; a row with a blank Screening Slot cell and a non-blank Film Title
\* appends one film to the active slot; so the films under a key are the film rows
\* that follow any slot row carrying that key and precede the next slot row, in
\* row order, accumulated over all the slot rows with that key; film rows before
\* any slot row are recorded under no slot.
C9_FilmsAccumulatePerKey ==
    /\ DOMAIN screening_films = {SlotKey(screenings_df[h]) : h \in SlotRows}
    /\ current_slot = IF SlotRows = {} THEN None
                      ELSE Str(SlotKey(screenings_df[SlotRowBefore(Len(screenings_df) + 1)]))
    /\ \A slot \in DOMAIN screening_films :
          [j \in 1..Len(screening_films[slot]) |-> FilmView(screening_films[slot][j])]
          = Views(SelectSeq(RowSeq, LAMBDA j :
                      /\ j \in FilmRows
                      /\ SlotRowBefore(j) # 0
                      /\ SlotKey(screenings_df[SlotRowBefore(j)]) = slot))

\* slot row, film, the same slot again, another film: both films under the slot
C9_Witness ==
    /\ Len(screenings_df) = 4
    /\ SlotRows = {1, 3}
    /\ SlotKey(screenings_df[1]) = SlotKey(screenings_df[3])
    /\ Len(screening_films[SlotKey(screenings_df[1])]) = 2
    /\ screening_films[SlotKey(screenings_df[1])][1].title
           # screening_films[SlotKey(screenings_df[1])][2].title

\* the header row that governs row j of the Sessions & Papers sheet (0 when none)
HeaderBefore(j) ==
    IF \E h \in HeaderRows : h < j
    THEN CHOOSE h \in HeaderRows : h < j /\ \A k \in HeaderRows : k < j => k <= h
    ELSE 0

\* the rows of the Sessions & Papers sheet whose names are resolved: header rows
\* and the paper rows under a header with a non-empty id
ResolvedSessionRows ==
    SelectSeq([k \in 1..Len(sessions_df) |-> k],
              LAMBDA j : \/ IsHeaderRow(sessions_df[j])
                         \/ /\ sessions_df[j].Type = T("paper")
                            /\ HeaderBefore(j) # 0
                            /\ HeaderId(sessions_df[HeaderBefore(j)]) # <<>>)

\* an Events row with none of Day, Time, Venue, Content and Type is skipped
IsBlankEventRow(row) ==
    \A cell \in {row.Day, row.Time, row.Venue, row.Content, row.Type} : is_blank(cell)

ResolvedEventRows ==
    SelectSeq([k \in 1..Len(events_df) |-> k], LAMBDA j : ~IsBlankEventRow(events_df[j]))

\* the film rows under a screening slot
ResolvedFilmRows ==
    SelectSeq(RowSeq, LAMBDA j : j \in FilmRows /\ SlotRowBefore(j) # 0)

\* the name tokens resolved so far, in the order they were resolved: sheet by
\* sheet, row by row, and left to right within a cell
ResolvedTokens ==
    Concat([k \in 1..Len(ResolvedSessionRows) |->
               parse_names(sessions_df[ResolvedSessionRows[k]].PresentersAuthors)])
    \o Concat([k \in 1..Len(ResolvedEventRows) |->
               parse_names(events_df[ResolvedEventRows[k]].Presenters)])
    \o Concat([k \in 1..Len(ResolvedFilmRows) |->
               parse_names(screenings_df[ResolvedFilmRows[k]].Creatives)])

\* the inline institution of a token; a token without annotation, or with a
\* blank one, declares none
InlineOf(tok) ==
    LET inst == parse_name_with_institution(Str(tok)).inst
    IN  IF is_blank(inst) THEN None ELSE inst

\* the non-empty names among the tokens that the Participants sheet did not hold
NewNames(toks) ==
    {NameOfToken(toks[k]) : k \in 1..Len(toks)} \ (LoadedNames \cup {<<>>})

FirstOccurrence(toks, name) ==
    CHOOSE k \in 1..Len(toks) :
        /\ NameOfToken(toks[k]) = name
        /\ \A m \in 1..(k - 1) : NameOfToken(toks[m]) # name

\* C11: after any name tokens resolved across the Sessions, Events and
\* Screenings sheets, new_participants lists exactly the resolved non-empty names
\* absent from the Participants sheet, each once, in order of first occurrence,
\* each paired with the inline institution of its first occurrence (null when it
\* had none); no listed name was loaded from the Participants sheet, and the
\* registry holds every listed name with the listed institution.
C11_NewParticipantReport ==
    LET toks == ResolvedTokens
        new == new_participants
    IN  /\ {new[i][1] : i \in 1..Len(new)} = NewNames(toks)
        /\ Len(new) = Cardinality(NewNames(toks))
        /\ \A i \in 1..Len(new) :
              /\ new[i][2] = InlineOf(toks[FirstOccurrence(toks, new[i][1])])
              /\ new[i][1] \notin LoadedNames
              /\ new[i][1] \in DOMAIN participant_lookup
              /\ participant_lookup[new[i][1]] = new[i][2]
        /\ \A i \in 1..Len(new) : \A j \in 1..Len(new) :
              i < j => FirstOccurrence(toks, new[i][1]) < FirstOccurrence(toks, new[j][1])

\* a finished run with A loaded from the Participants sheet and resolved again,
\* and two new names listed in order of first occurrence: C, first seen without
\* annotation and later as "C(H)", listed with null, and then a name declared
\* with an inline institution
C11_Witness ==
    /\ phase = "done"
    /\ <<"A">> \in LoadedNames
    /\ \E k \in 1..Len(ResolvedTokens) : NameOfToken(ResolvedTokens[k]) = <<"A">>
    /\ \E k \in 1..Len(ResolvedTokens) : \E m \in 1..Len(ResolvedTokens) :
          /\ k < m
          /\ ResolvedTokens[k] = <<"C">>
          /\ NameOfToken(ResolvedTokens[m]) = <<"C">>
          /\ InlineOf(ResolvedTokens[m]) # None
    /\ Len(new_participants) = 2
    /\ new_participants[1] = <<<<"C">>, None>>
    /\ new_participants[2][2] # None

(***************************************************************************)
(* SpecRoundTrip: the Extractor on a document, then the Reconciler on the   *)
(* workbook it wrote, unedited, with the same document as the original      *)
(***************************************************************************)
MaxDocEvents == 2

Person(name, inst) == [name |-> name, institution |-> inst]

A_MIT == Person(<<"A">>, T("MIT"))
A_H == Person(<<"A">>, T("H"))
A_null == Person(<<"A">>, None)
B_null == Person(<<"B">>, None)
B_empty == Person(<<"B">>, Str(<<>>))
C_paren == Person(<<"C", " ", "(", "X", ")">>, None)

DocPaper(title, abstract, authors) == [title |-> title, abstract |-> abstract, authors |-> authors]

DocSession(sid, title, description, presenters, papers) ==
    [sid |-> sid, type |-> T("panel"), title |-> title, description |-> description,
     presenters |-> presenters, papers |-> papers]

DocFilm(title, year, creatives) ==
    [title |-> title, year |-> year, duration |-> Absent, creatives |-> creatives]

DocEvent(day, time, type, content, session_num, presenters) ==
    [day |-> day, time |-> time, venue |-> T("V1"), content |-> content, type |-> type,
     session_num |-> session_num, affiliation |-> Absent, abstract |-> Absent,
     has_presenters |-> presenters # <<>>, presenters |-> presenters,
     has_films |-> FALSE, films |-> <<>>]

DocScreening(day, content, films) ==
    [DocEvent(day, Str(<<"1", "0", "0", "0">>), T("screening"), content, Absent, <<>>)
        EXCEPT !.has_films = TRUE, !.films = films]

SessionOptions ==
    {<<>>,
     <<DocSession(<<"1">>, T("T1"), T("d1"), <<A_MIT, B_null>>,
                  <<DocPaper(T("P1"), T("a1"), <<A_MIT>>), DocPaper(T("P2"), Str(<<>>), <<>>)>>)>>,
     <<DocSession(<<"1", "0">>, T("T10"), T("d10"), <<B_null>>, <<DocPaper(T("P3"), T("a3"), <<A_MIT>>)>>),
       DocSession(<<"2">>, T("T2"), Str(<<>>), <<>>, <<>>)>>,
     <<DocSession(<<"2">>, T("T2"), T("d2"), <<A_H>>, <<>>),
       DocSession(<<"1">>, T("T1"), T("d1"), <<C_paren>>, <<DocPaper(T("P1"), T("a1"), <<B_empty>>)>>)>>,
     <<DocSession(<<"1">>, Str(<<" ", "T1">>), Str(<<>>), <<A_null>>, <<>>)>>}

EventOptions ==
    {DocEvent(T("D1"), Str(<<"0", "9", "0", "0">>), T("panel"), T("c1"), T("1"), <<A_MIT>>),
     DocEvent(T("D1"), Str(<<"0", "9", "0", "0">>), T("panel"), T("c2"), T("2"), <<>>),
     DocEvent(T("D2"), Str(<<"9", "3", "0">>), T("plenary"), T("c3"), None, <<B_null>>),
     DocEvent(T("D2"), Str(<<"1", "1", "0", "0">>), T("panel"), T("c6"), T("5"), <<>>),
     DocEvent(T("D2"), Str(<<"1", "2", "0", "0">>), T("panel"), T("c7"), Str(<<>>), <<B_null>>),
     DocScreening(T("D1"), T("c4"), <<DocFilm(T("F1"), Num(1999), <<A_MIT>>)>>),
     DocScreening(T("D1"), T("c5"), <<DocFilm(T("F2"), None, <<B_null>>)>>),
     DocScreening(Str(<<>>), T("c8"), <<DocFilm(T("F3"), Absent, <<>>)>>)}

PanelOptions == {<<>>, (<<"1">> :> T("pd1"))}

EventLists == UNION {[1..n -> EventOptions] : n \in 0..MaxDocEvents}

RoundTripDocs ==
    {[sessions |-> ss, events |-> es, panel_descriptions |-> pd] :
        ss \in SessionOptions, es \in EventLists, pd \in PanelOptions}

\* export-to-excel.py main(), lines 40-173
Export ==
    /\ phase = "export"
    /\ phase' = "participants"
    /\ observed' = Observations(original)
    /\ participants' = AddAll(participants, Observations(original))
    /\ xlsx' = Workbook(original)
    /\ UNCHANGED <<original, participants_df, sessions_df, events_df, screenings_df,
                   participant_lookup, new_participants, warnings, sessions, current_session,
                   events, current_slot, screening_films>>

\* lines 72-75 and the loops over the sheets: the next row of the workbook
NextParticipantRow ==
    /\ phase = "participants"
    /\ Len(participants_df) < Len(xlsx.participants)
    /\ ReadParticipantRow(xlsx.participants[Len(participants_df) + 1])

NextSessionRow ==
    /\ phase = "sessions"
    /\ Len(sessions_df) < Len(xlsx.sessions)
    /\ ReadSessionRow(xlsx.sessions[Len(sessions_df) + 1])

NextEventRow ==
    /\ phase = "events"
    /\ Len(events_df) < Len(xlsx.events)
    /\ ReadEventRow(xlsx.events[Len(events_df) + 1])

NextScreeningRow ==
    /\ phase = "screenings"
    /\ Len(screenings_df) < Len(xlsx.screenings)
    /\ ReadScreeningRow(xlsx.screenings[Len(screenings_df) + 1])

InitRoundTrip == InitState("export", RoundTripDocs)

NextRoundTrip ==
    \/ Export
    \/ NextParticipantRow
    \/ (Len(participants_df) = Len(xlsx.participants) /\ ParticipantsLoaded)
    \/ NextSessionRow
    \/ (Len(sessions_df) = Len(xlsx.sessions) /\ SessionsRebuilt)
    \/ NextEventRow
    \/ (Len(events_df) = Len(xlsx.events) /\ EventsRebuilt)
    \/ NextScreeningRow
    \/ (Len(screenings_df) = Len(xlsx.screenings) /\ Finish)

SpecRoundTrip == InitRoundTrip /\ [][NextRoundTrip]_vars

(***************************************************************************)
(* Round-trip stability (SpecRoundTrip)                                    *)
(***************************************************************************)
\* the references rebuilt equal the people of the document, name and institution
SamePeople(refs, people) ==
    /\ Len(refs) = Len(people)
    /\ \A i \in 1..Len(refs) :
          /\ refs[i].name = people[i].name
          /\ refs[i].institution = Get(people[i].institution)

SamePaper(o, d) ==
    /\ Str(o.title) = d.title
    /\ Str(o.abstract) = d.abstract
    /\ SamePeople(o.authors, d.authors)

SameSession(o, d) ==
    /\ o.sid = d.sid
    /\ Str(o.type) = d.type
    /\ Str(o.title) = d.title
    /\ Str(o.description) = d.description
    /\ SamePeople(o.presenters, d.presenters)
    /\ Len(o.papers) = Len(d.papers)
    /\ \A j \in 1..Len(o.papers) : SamePaper(o.papers[j], d.papers[j])

SameFilm(o, d) ==
    /\ Str(o.title) = d.title
    /\ o.year = Get(d.year)
    /\ o.duration = Get(d.duration)
    /\ SamePeople(o.creatives, d.creatives)

SameEvent(o, d) ==
    /\ Str(o.day) = d.day
    /\ Str(o.time) = d.time
    /\ Str(o.venue) = d.venue
    /\ Str(o.content) = d.content
    /\ Str(o.type) = d.type
    /\ o.session_num = Get(d.session_num)
    /\ SamePeople(o.presenters, d.presenters)
    /\ Len(o.films) = Len(d.films)
    /\ \A j \in 1..Len(o.films) : SameFilm(o.films[j], d.films[j])

\* the output's sessions and events equal the document's (sessions as a mapping,
\* events as a list; a missing list counts as empty, a missing value as null)
SameDocument(out, doc) ==
    /\ Len(out.sessions) = Len(doc.sessions)
    /\ \A i \in 1..Len(doc.sessions) :
          \E j \in 1..Len(out.sessions) : SameSession(out.sessions[j], doc.sessions[i])
    /\ Len(out.events) = Len(doc.events)
    /\ \A i \in 1..Len(out.events) : SameEvent(out.events[i], doc.events[i])

\* C1 as stated: the round trip of any document yields its sessions and events.
C1_RoundTrip == phase = "done" => SameDocument(Output, original)

\* every person object of a document
DocPeople(doc) ==
    Range(Concat([i \in 1..Len(doc.sessions) |-> SessionPeople(doc.sessions[i])])
          \o Concat([i \in 1..Len(doc.events) |->
                        doc.events[i].presenters
                        \o Concat([j \in 1..Len(doc.events[i].films) |->
                                      doc.events[i].films[j].creatives])]))

\* a text field that is a string without surrounding white space
Trimmed(v) == v.kind = "str" /\ Strip(v.s) = v.s

\* a name the sheets carry as it is: not empty, trimmed, without ';', and not of
\* the form 'Name (Institution)'
PlainName(name) ==
    /\ name # <<>>
    /\ Strip(name) = name
    /\ \A i \in 1..Len(name) : name[i] # ";"
    /\ \A k \in 1..Len(name) : ~RestMatches(SubSeq(name, k + 1, Len(name)))

CanonicalPeople(doc) ==
    /\ \A p \in DocPeople(doc) :
          /\ PlainName(p.name)
          /\ Get(p.institution) = None
             \/ (p.institution.kind = "str" /\ Strip(p.institution.s) # <<>>)
    /\ \A p, q \in DocPeople(doc) :
          p.name = q.name => Get(p.institution) = Get(q.institution)

CanonicalSessions(doc) ==
    \A i \in 1..Len(doc.sessions) :
        LET d == doc.sessions[i]
        IN  /\ IsDigitText(d.sid)
            /\ \A j \in 1..Len(doc.sessions) : doc.sessions[j].sid = d.sid => j = i
            /\ Trimmed(d.type) /\ Trimmed(d.title) /\ Trimmed(d.description)
            /\ \/ d.description.s # <<>>
               \/ d.sid \notin DOMAIN doc.panel_descriptions
               \/ is_blank(doc.panel_descriptions[d.sid])
            /\ \A j \in 1..Len(d.papers) :
                  Trimmed(d.papers[j].title) /\ Trimmed(d.papers[j].abstract)

SameSlot(d, e) == d.day = e.day /\ d.time = e.time /\ d.venue = e.venue

CanonicalEvents(doc) ==
    \A i \in 1..Len(doc.events) :
        LET d == doc.events[i]
        IN  /\ Trimmed(d.day) /\ Trimmed(d.time) /\ Trimmed(d.venue)
            /\ Trimmed(d.content) /\ Trimmed(d.type)
            /\ ~(IsDigitText(d.time.s) /\ Len(d.time.s) < 4)
            /\ \E v \in {d.day, d.time, d.venue, d.content, d.type} : v.s # <<>>
            /\ Get(d.session_num) = None \/ d.session_num.kind = "str"
            /\ Truthy(d.session_num) =>
                  \E j \in 1..Len(doc.sessions) : doc.sessions[j].sid = d.session_num.s
            /\ \A j \in 1..Len(doc.events) :
                  SameSlot(doc.events[j], d) =>
                      Get(doc.events[j].session_num) = Get(d.session_num)
            /\ (~d.has_presenters) => d.presenters = <<>>
            /\ (~d.has_films) => d.films = <<>>
            /\ d.has_films => IsScreening(d)
            /\ \A j \in 1..Len(d.films) :
                  /\ Trimmed(d.films[j].title) /\ d.films[j].title.s # <<>>
                  /\ Get(d.films[j].year) = None \/ d.films[j].year.kind = "num"
                  /\ Get(d.films[j].duration) = None \/ d.films[j].duration.kind = "num"
            /\ IsScreening(d) =>
                  /\ d.day.s # <<>> /\ d.venue.s # <<>>
                  /\ \A j \in 1..Len(doc.events) :
                        (j # i /\ IsScreening(doc.events[j])) =>
                            SlotLabel(d.day.s, d.time.s, d.venue.s)
                            # SlotLabel(doc.events[j].day.s, doc.events[j].time.s,
                                        doc.events[j].venue.s)

Canonical(doc) == CanonicalPeople(doc) /\ CanonicalSessions(doc) /\ CanonicalEvents(doc)

\* C1 amended: the round trip yields the document's sessions and events for every
\* document in which: each name is non-empty, trimmed, has no ';' and is not of
\* the form 'Name (Institution)'; each institution is null or a non-blank string
\* and a name has the same institution wherever it occurs; text fields are
\* trimmed strings; session ids are digit strings; a session with an empty
\* description has no panel description; event times are not digit strings of
\* fewer than four digits; no event has all of day, time, venue, content, type
\* empty; a non-empty session_num is the id of a session, and events at the same
\* (day, time, venue) have the same session_num; only screening events have
\* films; film titles are non-empty and years and durations integers or null;
\* screening events have a day and a venue and pairwise different slot labels.
C1_RoundTripOfCanonical ==
    (phase = "done" /\ Canonical(original)) => SameDocument(Output, original)

\* a finished round trip of such a document with a session with papers, people
\* with and without an institution, an event of that session and a screening
C1_Witness ==
    /\ phase = "done"
    /\ Canonical(original)
    /\ \E i \in 1..Len(sessions) : Len(sessions[i].papers) = 2
    /\ \E r1, r2 \in OutputRefs : Truthy(r1.institution) /\ r2.institution = None
    /\ \E i \in 1..Len(events) : Truthy(events[i].session_num)
    /\ \E i \in 1..Len(events) : Len(events[i].films) = 1

====
